---- MODULE Spec2Model ----
(***************************************************************************)
(* lgrep: the search library (query building, options, validation,         *)
(* execution, result extraction) and the command-line front end, modelled  *)
(* from src/cmd/lgrep/main.go.                                             *)
(*                                                                         *)
(* Every operation is applied once to inputs that Init draws from bounded  *)
(* sets: pc = "ready" before the operation, pc = "done" after it, and op   *)
(* names the operation that ran.  The search engine and the file system    *)
(* are the environment: their answers are part of the drawn inputs.        *)
(***************************************************************************)
EXTENDS Integers, Sequences, FiniteSets, TLC

VARIABLES
    pc,         \* "ready" | "prepared" | "done"
    op,         \* the operation that has been applied, "none" before
    spec,       \* *SearchOptions: <<>> is the nil pointer, <<o>> points to o
    arg,        \* the query argument: a lucene string or a raw query value
    engine,     \* the engine's answers to the requests of this call
    engineLog,  \* the requests made to the engine, in order
    ret,        \* what the operation returned
    search,     \* the *elastic.SearchService being configured
    cli,        \* the command-line invocation (flags, arguments, file system)
    out         \* what the command-line run did (exit code, searches, output)

vars == <<pc, op, spec, arg, engine, engineLog, ret, search, cli, out>>

----------------------------------------------------------------------------
(* Bounds *)

MaxSize == 2        \* SearchOptions.Size ranges over 0..MaxSize
MaxIndices == 1     \* length of SearchOptions.Indices
MaxHits == 2        \* hits in a search result given to consumeResults
StreamHits == 1     \* hits the engine answers to an executed search
MaxJSONLen == 2     \* tokens of a raw query given as bytes
MaxArgs == 2        \* positional arguments of the command line
MaxFieldsLen == 1   \* characters of the query-fields flag value

----------------------------------------------------------------------------
(* Sequences *)

SeqsUpTo(S, n) == UNION {[1..k -> S] : k \in 0..n}

Range(s) == {s[i] : i \in 1..Len(s)}

Take(s, n) == IF n >= Len(s) THEN s ELSE SubSeq(s, 1, n)

----------------------------------------------------------------------------
(* SearchOptions *)

IndexNames == {"i1", "i2"}

FieldLists == {<<>>, <<"host">>}

\* SortTime is a *bool: nil, or SortAsc / SortDesc
SortTimes == {"nil", "asc", "desc"}

SearchOptions(sizes, indexes, indicesSet, sorts, skips) ==
    [Size : sizes, Index : indexes, Indices : indicesSet, SortTime : sorts,
     Fields : FieldLists, RawResult : BOOLEAN, QueryDebug : BOOLEAN,
     QuerySkipValidate : skips]

DefaultSize == 100

DefaultSpec ==
    [Size |-> DefaultSize, Index |-> "", Indices |-> <<>>, SortTime |-> "desc",
     Fields |-> <<>>, RawResult |-> FALSE, QueryDebug |-> FALSE,
     QuerySkipValidate |-> FALSE]

----------------------------------------------------------------------------
(* The search builder (elastic.SearchService) *)

Unset == -1

NoQuery == [kind |-> "none", text |-> "", isNil |-> FALSE, keys |-> {}]

\* l.Client.Search().SearchSource(elastic.NewSearchSource())
NewSearch ==
    [size |-> Unset, index |-> <<>>, sort |-> <<>>, query |-> NoQuery,
     calls |-> <<>>]

\* elastic.SearchService.Size
Size(s, n) == [s EXCEPT !.size = n, !.calls = Append(@, "Size")]

\* elastic.SearchService.Index: appends to the indices already selected
Index(s, names) == [s EXCEPT !.index = @ \o names, !.calls = Append(@, "Index")]

\* SortByTimestamp: sort by the canonical timestamp field
SortByTimestamp(s, asc) ==
    [s EXCEPT !.sort = Append(@, <<"@timestamp", asc>>),
              !.calls = Append(@, "Sort")]

ApplySize(s, o) == IF o.Size # 0 THEN Size(s, o.Size) ELSE s

ApplyIndex(s, o) == IF o.Index # "" THEN Index(s, <<o.Index>>) ELSE s

ApplyIndices(s, o) == IF Len(o.Indices) # 0 THEN Index(s, o.Indices) ELSE s

ApplySortTime(s, o) ==
    IF o.SortTime # "nil" THEN SortByTimestamp(s, o.SortTime = "asc") ELSE s

\* A plausible slip: the single index is applied after the index list.
apply_IndicesFirst(s, o) ==
    ApplySortTime(ApplyIndex(ApplyIndices(ApplySize(s, o), o), o), o)

\* func (s SearchOptions) apply(search *elastic.SearchService)
apply(s, o) ==
    ApplySortTime(ApplyIndices(ApplyIndex(ApplySize(s, o), o), o), o)

----------------------------------------------------------------------------
(* Hits and results *)

\* A hit carries a field projection (possibly empty) and a source document
\* (Source is a *json.RawMessage: <<>> is nil, <<d>> points to d).  Hits are
\* the elements the client decodes from the engine's hit list, so the hit
\* pointer itself is never nil.
Docs == {"d1", "d2"}

Hits == [Fields : {{}, {"host"}}, Source : {<<>>} \cup {<<d>> : d \in Docs}]

NoResult == [variant |-> "none", hit |-> <<>>, fields |-> {}, doc |-> ""]

HitResult(h) == [variant |-> "HitResult", hit |-> <<h>>, fields |-> {}, doc |-> ""]

FieldResult(f) == [variant |-> "FieldResult", hit |-> <<>>, fields |-> f, doc |-> ""]

SourceResult(d) == [variant |-> "SourceResult", hit |-> <<>>, fields |-> {}, doc |-> d]

\* A plausible slip: the field projection is tested before the raw toggle.
extractResult_FieldsFirst(h, o) ==
    IF Len(o.Fields) # 0 /\ h.Fields # {}
    THEN [result |-> FieldResult(h.Fields), err |-> "nil"]
    ELSE IF o.RawResult
    THEN [result |-> HitResult(h), err |-> "nil"]
    ELSE IF h.Source = <<>>
    THEN [result |-> NoResult, err |-> "nil document returned"]
    ELSE [result |-> SourceResult(h.Source[1]), err |-> "nil"]

\* A plausible slip: the field projection is used whenever the hit has one.
extractResult_IgnoreSpecFields(h, o) ==
    IF o.RawResult
    THEN [result |-> HitResult(h), err |-> "nil"]
    ELSE IF h.Fields # {}
    THEN [result |-> FieldResult(h.Fields), err |-> "nil"]
    ELSE IF h.Source = <<>>
    THEN [result |-> NoResult, err |-> "nil document returned"]
    ELSE [result |-> SourceResult(h.Source[1]), err |-> "nil"]

\* func extractResult(hit *elastic.SearchHit, spec SearchOptions)
extractResult(h, o) ==
    IF o.RawResult
    THEN [result |-> HitResult(h), err |-> "nil"]
    ELSE IF Len(o.Fields) # 0 /\ h.Fields # {}
    THEN [result |-> FieldResult(h.Fields), err |-> "nil"]
    ELSE IF h.Source = <<>>
    THEN [result |-> NoResult, err |-> "nil document returned"]
    ELSE [result |-> SourceResult(h.Source[1]), err |-> "nil"]

RECURSIVE consumeFrom(_, _, _, _)
\* the loop of consumeResults from hit i on, results being those appended so far
consumeFrom(hs, o, i, results) ==
    IF i > Len(hs)
    THEN [results |-> results, err |-> "nil"]
    ELSE LET r == extractResult(hs[i], o)
         IN IF r.err # "nil"
            THEN [results |-> results, err |-> r.err]
            ELSE consumeFrom(hs, o, i + 1, Append(results, r.result))

RECURSIVE consumeFrom_SkipFailed(_, _, _, _)
consumeFrom_SkipFailed(hs, o, i, results) ==
    IF i > Len(hs)
    THEN [results |-> results, err |-> "nil"]
    ELSE LET r == extractResult(hs[i], o)
         IN IF r.err # "nil"
            THEN consumeFrom_SkipFailed(hs, o, i + 1, results)
            ELSE consumeFrom_SkipFailed(hs, o, i + 1, Append(results, r.result))

\* A plausible slip: a hit that cannot be extracted is skipped.
consumeResults_SkipFailed(hs, o) == consumeFrom_SkipFailed(hs, o, 1, <<>>)

\* func consumeResults(res *elastic.SearchResult, spec SearchOptions)
consumeResults(hs, o) == consumeFrom(hs, o, 1, <<>>)

----------------------------------------------------------------------------
(* Queries *)

Queries == {"", "error", "*"}

LuceneQuery(q) == [kind |-> "query_string", text |-> q, isNil |-> FALSE, keys |-> {}]

\* SearchWithLucene: wraps the string as the engine's query-string expression
SearchWithLucene(s, q) ==
    [s EXCEPT !.query = LuceneQuery(q), !.calls = Append(@, "Query")]

\* configureSearch: applies the options to the search being built
configureSearch(s, o) == apply(s, o)

\* A raw query given as bytes is a sequence of tokens: "{" and "}" delimit
\* an object and "k" stands for one complete member ("k": value).
JSONTokens == {"{", "}", "k"}

JSONTexts == SeqsUpTo(JSONTokens, MaxJSONLen)

\* the text is one JSON object: "{", at most one member, "}"
IsJSONObject(data) ==
    /\ Len(data) \in {2, 3}
    /\ data[1] = "{"
    /\ data[Len(data)] = "}"
    /\ Len(data) = 3 => data[2] = "k"

QueryMap(keys) == [kind |-> "QueryMap", text |-> "", isNil |-> FALSE, keys |-> keys]

NilQueryMap == [kind |-> "QueryMap", text |-> "", isNil |-> TRUE, keys |-> {}]

\* QueryMapFromJSON: decodes the bytes into a query document
QueryMapFromJSON(data) ==
    IF IsJSONObject(data)
    THEN [query |-> QueryMap({data[i] : i \in 2..(Len(data) - 1)}), err |-> "nil"]
    ELSE [query |-> NilQueryMap, err |-> "decode error"]

RawTypes == {"json.RawMessage", "[]byte", "map[string]interface{}", "QueryMap", "other"}

ByteTypes == {"json.RawMessage", "[]byte"}

MapTypes == {"map[string]interface{}", "QueryMap"}

NoRaw == [type |-> "none", data |-> <<>>, keys |-> {}]

RawInputs ==
    [type : ByteTypes, data : JSONTexts, keys : {{}}]
    \cup [type : MapTypes, data : {<<>>}, keys : {{}, {"k"}}]
    \cup [type : {"other"}, data : {<<>>}, keys : {{}}]

\* elastic.SearchService.Source: the raw document becomes the request body
Source(s, query) == [s EXCEPT !.query = query, !.calls = Append(@, "Source")]

----------------------------------------------------------------------------
(* The engine, validation and execution *)

Engines(n) == [validateErr : BOOLEAN, doErr : BOOLEAN, hits : SeqsUpTo(Hits, n)]

Request(name, query, s) ==
    [op |-> name, query |-> query, size |-> s.size, index |-> s.index]

Return(stream, results, err, log, debug) ==
    [stream |-> stream, results |-> results, err |-> err, log |-> log,
     debug |-> debug, fatal |-> FALSE]

\* log.Fatalf: the process exits, nothing is returned
Fatal(log, debug) ==
    [stream |-> <<>>, results |-> <<>>, err |-> "nil", log |-> log,
     debug |-> debug, fatal |-> TRUE]

\* l.validate: asks the engine to check the query without fetching results;
\* the engine rejects a query document that could not be decoded
validate(log, query, s, eng) ==
    [log |-> Append(log, Request("validate", query, s)),
     err |-> IF eng.validateErr \/ query.isNil THEN "validate error" ELSE "nil"]

\* l.execute: issues the search; the stream delivers the engine's hits, at
\* most Size of them
execute(log, s, query, o, eng, debug) ==
    LET log2 == Append(log, Request("execute", query, s))
    IN IF eng.doErr
       THEN Return(<<>>, <<>>, "execute error", log2, debug)
       ELSE Return(<<[hits |-> Take(eng.hits, o.Size), spec |-> o]>>, <<>>,
                   "nil", log2, debug)

\* SearchStream.All: drains the stream into results
All(r) ==
    LET c == consumeResults(r.stream[1].hits, r.stream[1].spec)
    IN Return(<<>>, c.results, c.err, r.log, r.debug)

Deref(sp) == IF sp = <<>> THEN DefaultSpec ELSE sp[1]

\* A plausible slip: an empty query is replaced by match-all and submitted.
SimpleSearchStream_DefaultQuery(q, sp, eng) ==
    LET s0 == SearchWithLucene(NewSearch, IF q = "" THEN "*" ELSE q)
    IN IF sp # <<>> /\ sp[1].Size = 0
       THEN Return(<<>>, <<>>, "ErrZeroSize", <<>>, <<>>)
       ELSE LET o == Deref(sp)
                s1 == configureSearch(s0, o)
                dbg == IF o.QueryDebug THEN <<s1.query>> ELSE <<>>
                v == IF ~o.QuerySkipValidate
                     THEN validate(<<>>, s1.query, s1, eng)
                     ELSE [log |-> <<>>, err |-> "nil"]
            IN IF v.err # "nil"
               THEN Return(<<>>, <<>>, v.err, v.log, dbg)
               ELSE execute(v.log, s1, s1.query, o, eng, dbg)

\* A plausible slip: the search is executed although validation failed.
SimpleSearchStream_IgnoreValidation(q, sp, eng) ==
    IF q = ""
    THEN Return(<<>>, <<>>, "ErrEmptySearch", <<>>, <<>>)
    ELSE LET s0 == SearchWithLucene(NewSearch, q)
         IN IF sp # <<>> /\ sp[1].Size = 0
            THEN Return(<<>>, <<>>, "ErrZeroSize", <<>>, <<>>)
            ELSE LET o == Deref(sp)
                     s1 == configureSearch(s0, o)
                     dbg == IF o.QueryDebug THEN <<s1.query>> ELSE <<>>
                     v == IF ~o.QuerySkipValidate
                          THEN validate(<<>>, s1.query, s1, eng)
                          ELSE [log |-> <<>>, err |-> "nil"]
                 IN execute(v.log, s1, s1.query, o, eng, dbg)

\* func (l LGrep) SimpleSearchStream(q string, spec *SearchOptions)
SimpleSearchStream(q, sp, eng) ==
    IF q = ""
    THEN Return(<<>>, <<>>, "ErrEmptySearch", <<>>, <<>>)
    ELSE LET s0 == SearchWithLucene(NewSearch, q)
         IN IF sp # <<>> /\ sp[1].Size = 0
            THEN Return(<<>>, <<>>, "ErrZeroSize", <<>>, <<>>)
            ELSE LET o == Deref(sp)
                     s1 == configureSearch(s0, o)
                     dbg == IF o.QueryDebug THEN <<s1.query>> ELSE <<>>
                     v == IF ~o.QuerySkipValidate
                          THEN validate(<<>>, s1.query, s1, eng)
                          ELSE [log |-> <<>>, err |-> "nil"]
                 IN IF v.err # "nil"
                    THEN Return(<<>>, <<>>, v.err, v.log, dbg)
                    ELSE execute(v.log, s1, s1.query, o, eng, dbg)

\* func (l LGrep) SimpleSearch(q string, spec *SearchOptions) (results []Result, err error)
SimpleSearch(q, sp, eng) ==
    LET r == SimpleSearchStream(q, sp, eng)
    IN IF r.err # "nil" THEN Return(<<>>, <<>>, r.err, r.log, r.debug) ELSE All(r)

\* func (l LGrep) SearchWithSourceStream(raw interface{}, spec *SearchOptions)
SearchWithSourceStream(raw, sp, eng) ==
    LET o == Deref(sp)
        s1 == configureSearch(NewSearch, o)
        d == IF raw.type \in ByteTypes
             THEN QueryMapFromJSON(raw.data)
             ELSE [query |-> QueryMap(raw.keys), err |-> "nil"]
    IN IF raw.type \notin ByteTypes \cup MapTypes
       THEN Fatal(<<>>, <<>>)
       ELSE LET s2 == Source(s1, d.query)
                dbg == IF o.QueryDebug THEN <<d.query>> ELSE <<>>
                v == IF ~o.QuerySkipValidate
                     THEN validate(<<>>, d.query, s2, eng)
                     ELSE [log |-> <<>>, err |-> "nil"]
            IN IF v.err # "nil"
               THEN Return(<<>>, <<>>, v.err, v.log,
                           IF o.QueryDebug THEN Append(dbg, v.err) ELSE dbg)
               ELSE execute(v.log, s2, d.query, o, eng, dbg)

\* func (l LGrep) SearchWithSource(raw interface{}, spec *SearchOptions) (results []Result, err error)
SearchWithSource(raw, sp, eng) ==
    LET r == SearchWithSourceStream(raw, sp, eng)
    IN IF r.fatal THEN r
       ELSE IF r.err # "nil" THEN Return(<<>>, <<>>, r.err, r.log, r.debug)
       ELSE All(r)

\* the documents of the hits, as the earlier entry points return them
Sources(hs) == [i \in 1..Len(hs) |-> hs[i].Source]

\* search.Do() of the earlier entry points, which return the hits' documents
Do(s, o, eng, debug) ==
    LET log == <<Request("Do", s.query, s)>>
    IN IF eng.doErr
       THEN Return(<<>>, <<>>, "Search returned with error", log, debug)
       ELSE Return(<<>>, Sources(Take(eng.hits, o.Size)), "nil", log, debug)

\* func (l LGrep) SimpleSearch(q string, spec *SearchOptions) (docs []*json.RawMessage, err error)
SimpleSearchDocs(q, sp, eng) ==
    IF q = ""
    THEN Return(<<>>, <<>>, "ErrEmptySearch", <<>>, <<>>)
    ELSE LET s0 == SearchWithLucene(NewSearch, q)
         IN IF sp # <<>> /\ sp[1].Size = 0
            THEN Return(<<>>, <<>>, "nil", <<>>, <<>>)
            ELSE LET o == Deref(sp)
                     s1 == apply(s0, o)
                 IN Do(s1, o, eng, IF o.QueryDebug THEN <<s1.query>> ELSE <<>>)

\* func (l LGrep) SearchWithSource(source interface{}, spec *SearchOptions) (docs []*json.RawMessage, err error)
SearchWithSourceDocs(raw, sp, eng) ==
    IF sp # <<>> /\ sp[1].Size = 0
    THEN Return(<<>>, <<>>, "nil", <<>>, <<>>)
    ELSE LET o == Deref(sp)
             s1 == apply(NewSearch, o)
         IN Do(s1, o, eng, IF o.QueryDebug THEN <<s1.query>> ELSE <<>>)

----------------------------------------------------------------------------
(* The command line *)

\* Strings of the command line are sequences of characters.
RECURSIVE Join(_, _)
\* strings.Join
Join(strs, sep) ==
    IF Len(strs) = 0 THEN <<>>
    ELSE IF Len(strs) = 1 THEN strs[1]
    ELSE strs[1] \o sep \o Join(Tail(strs), sep)

RECURSIVE SplitFrom(_, _, _, _)
\* the pieces of str from position i on, cur being the piece read so far
SplitFrom(str, sep, i, cur) ==
    IF i > Len(str) THEN <<cur>>
    ELSE IF str[i] = sep THEN <<cur>> \o SplitFrom(str, sep, i + 1, <<>>)
    ELSE SplitFrom(str, sep, i + 1, Append(cur, str[i]))

\* strings.Split with a one-character separator
Split(str, sep) == SplitFrom(str, sep, 1, <<>>)

DefaultFormat == <<".message">>

StdlineFormat == <<".host .service .message">>

Endpoints == {"", "%zz", "http://localhost:9200/"}

\* url.Parse fails on an invalid escape
UrlParseFails(endpoint) == endpoint = "%zz"

\* the query file: the flag is unset, or the file cannot be stat'ed, or it
\* can be stat'ed but not opened, or opened but not read, or it is read
QueryFiles == {"unset", "missing", "unopenable", "unreadable", "ok"}

ArgStrings == {<<>>, <<"a">>}

Invocations ==
    [endpoint : Endpoints, stdline : BOOLEAN, file : QueryFiles,
     args : SeqsUpTo(ArgStrings, MaxArgs), rawJson : BOOLEAN,
     queryFields : SeqsUpTo({"f", ","}, MaxFieldsLen)]

NoInvocation ==
    [endpoint |-> "", stdline |-> FALSE, file |-> "unset", args |-> <<>>,
     rawJson |-> FALSE, queryFields |-> <<>>]

NoOut ==
    [code |-> 0, format |-> DefaultFormat, newErr |-> FALSE, searches |-> <<>>,
     results |-> <<>>, err |-> "nil", logged |-> <<>>, printed |-> <<>>,
     formatted |-> FALSE]

Exit(o, code) == [o EXCEPT !.code = code, !.err = "exit"]

\* A plausible slip: a query file together with arguments is let through.
RunPrepareApp_AllowBoth(c) ==
    LET o == [NoOut EXCEPT !.format = IF c.stdline THEN StdlineFormat ELSE @]
        queryProvided == c.file # "unset"
    IN IF c.endpoint = "" \/ UrlParseFails(c.endpoint) THEN Exit(NoOut, 1)
       ELSE IF c.file = "missing" THEN Exit(o, 3)
       ELSE IF Len(c.args) = 0 /\ ~queryProvided THEN Exit(o, 3)
       ELSE o

\* func RunPrepareApp(c *cli.Context) (err error)
RunPrepareApp(c) ==
    LET o == [NoOut EXCEPT !.format = IF c.stdline THEN StdlineFormat ELSE @]
        queryProvided == c.file # "unset"
    IN IF c.endpoint = "" \/ UrlParseFails(c.endpoint) THEN Exit(NoOut, 1)
       ELSE IF c.file = "missing" THEN Exit(o, 3)
       ELSE IF Len(c.args) > 0 /\ queryProvided THEN Exit(o, 3)
       ELSE IF Len(c.args) = 0 /\ ~queryProvided THEN Exit(o, 3)
       ELSE o

\* lgrep.Format: one line of text per result
Format(results, format) == [i \in 1..Len(results) |-> <<format, results[i]>>]

\* the part of RunQuery after the searches: report, print or format
Report(c, o, queryFields) ==
    IF o.err # "nil" THEN o
    ELSE IF Len(o.results) = 0
    THEN [o EXCEPT !.logged = Append(@, "0 results returned")]
    ELSE IF c.rawJson
    THEN IF Len(queryFields) > 0
         THEN [o EXCEPT !.logged = Append(@, "Field selection and raw output is unsupported at this time")]
         ELSE [o EXCEPT !.printed = o.results]
    ELSE [o EXCEPT !.formatted = TRUE]

\* func RunQuery(c *cli.Context) (err error); o is the outcome of
\* RunPrepareApp, newErr whether the client cannot be created, res and
\* searchErr the answer of the search, formatErr whether formatting fails
RunQuery(c, o, newErr, res, searchErr, formatErr) ==
    LET queryFields == Split(c.queryFields, ",")
        query == Join(c.args, <<" ">>)
        answer == [results |-> IF searchErr THEN <<>> ELSE res,
                   err |-> IF searchErr THEN "search error" ELSE "nil"]
        o1 == [o EXCEPT !.newErr = newErr]
    IN IF newErr THEN [o1 EXCEPT !.err = "client error"]
       ELSE IF c.file \in {"missing", "unopenable"}
       THEN [o1 EXCEPT !.err = "Could not open the provided query file"]
       ELSE IF c.file = "unreadable"
       THEN [o1 EXCEPT !.err = "Could not read the provided query file"]
       ELSE LET o2 == IF c.file = "ok"
                      THEN [o1 EXCEPT !.searches = Append(@, "SearchWithSource"),
                                      !.results = answer.results,
                                      !.err = answer.err]
                      ELSE o1
                o3 == IF query # <<>>
                      THEN [o2 EXCEPT !.searches = Append(@, "SimpleSearch"),
                                      !.results = answer.results,
                                      !.err = answer.err]
                      ELSE o2
                o4 == Report(c, o3, queryFields)
            IN IF ~o4.formatted THEN o4
               ELSE IF formatErr THEN [o4 EXCEPT !.err = "format error"]
               ELSE [o4 EXCEPT !.printed = Format(o3.results, o.format)]

----------------------------------------------------------------------------
(* Specifications.  Each draws the inputs of its operations in Init and     *)
(* applies one operation to them.                                          *)

NoArg == [mode |-> "none", q |-> "", raw |-> NoRaw]

NoEngine == [validateErr |-> FALSE, doErr |-> FALSE, hits |-> <<>>]

NoReturn == Return(<<>>, <<>>, "nil", <<>>, <<>>)

Applied(name) == pc' = "done" /\ op' = name

(* SearchOptions.apply on a builder that may already carry settings *)

Builders ==
    {NewSearch,
     SearchWithLucene(NewSearch, "error"),
     Index(Size(SearchWithLucene(NewSearch, "*"), 7), <<"i0">>),
     SortByTimestamp(Index(NewSearch, <<"i2">>), TRUE)}

InitApply ==
    /\ pc = "ready"
    /\ op = "none"
    /\ spec \in {<<o>> : o \in SearchOptions(0..MaxSize, {""} \cup IndexNames,
                                            SeqsUpTo(IndexNames, MaxIndices),
                                            SortTimes, BOOLEAN)}
    /\ search \in Builders
    /\ arg = NoArg
    /\ engine = NoEngine
    /\ engineLog = <<>>
    /\ ret = [before |-> search]
    /\ cli = NoInvocation
    /\ out = NoOut

Apply ==
    /\ pc = "ready"
    /\ search' = apply(search, spec[1])
    /\ Applied("apply")
    /\ UNCHANGED <<spec, arg, engine, engineLog, ret, cli, out>>

NextApply == Apply

SpecApply == InitApply /\ [][NextApply]_vars

(* extractResult and consumeResults on the hits of a search result *)

ResultOptions == SearchOptions({MaxSize}, {""}, {<<>>}, {"nil"}, {FALSE})

InitResult ==
    /\ pc = "ready"
    /\ op = "none"
    /\ spec \in {<<o>> : o \in ResultOptions}
    /\ engine \in [validateErr : {FALSE}, doErr : {FALSE},
                   hits : SeqsUpTo(Hits, MaxHits)]
    /\ arg = NoArg
    /\ search = NewSearch
    /\ engineLog = <<>>
    /\ ret = NoReturn
    /\ cli = NoInvocation
    /\ out = NoOut

ExtractResult ==
    /\ pc = "ready"
    /\ Len(engine.hits) = 1
    /\ LET r == extractResult(engine.hits[1], spec[1])
       IN ret' = [result |-> r.result, err |-> r.err]
    /\ Applied("extractResult")
    /\ UNCHANGED <<spec, arg, engine, engineLog, search, cli, out>>

ConsumeResults ==
    /\ pc = "ready"
    /\ ret' = consumeResults(engine.hits, spec[1])
    /\ Applied("consumeResults")
    /\ UNCHANGED <<spec, arg, engine, engineLog, search, cli, out>>

NextResult == ExtractResult \/ ConsumeResults

SpecResult == InitResult /\ [][NextResult]_vars

(* The search entry points *)

SearchSpecs ==
    {<<>>} \cup {<<o>> : o \in SearchOptions(0..MaxSize, {""}, {<<>>}, {"nil"}, BOOLEAN)}

SearchArgs ==
    [mode : {"lucene"}, q : Queries, raw : {NoRaw}]
    \cup [mode : {"source"}, q : {""}, raw : RawInputs]

InitSearch ==
    /\ pc = "ready"
    /\ op = "none"
    /\ spec \in SearchSpecs
    /\ arg \in SearchArgs
    /\ engine \in Engines(StreamHits)
    /\ search = NewSearch
    /\ engineLog = <<>>
    /\ ret = NoReturn
    /\ cli = NoInvocation
    /\ out = NoOut

Returned(name, r) ==
    /\ ret' = r
    /\ engineLog' = r.log
    /\ Applied(name)
    /\ UNCHANGED <<spec, arg, engine, search, cli, out>>

CallSimpleSearchStream ==
    /\ pc = "ready" /\ arg.mode = "lucene"
    /\ Returned("SimpleSearchStream", SimpleSearchStream(arg.q, spec, engine))

CallSimpleSearch ==
    /\ pc = "ready" /\ arg.mode = "lucene"
    /\ Returned("SimpleSearch", SimpleSearch(arg.q, spec, engine))

CallSearchWithSourceStream ==
    /\ pc = "ready" /\ arg.mode = "source"
    /\ Returned("SearchWithSourceStream", SearchWithSourceStream(arg.raw, spec, engine))

CallSearchWithSource ==
    /\ pc = "ready" /\ arg.mode = "source"
    /\ Returned("SearchWithSource", SearchWithSource(arg.raw, spec, engine))

CallSimpleSearchDocs ==
    /\ pc = "ready" /\ arg.mode = "lucene"
    /\ Returned("SimpleSearchDocs", SimpleSearchDocs(arg.q, spec, engine))

CallSearchWithSourceDocs ==
    /\ pc = "ready" /\ arg.mode = "source"
    /\ Returned("SearchWithSourceDocs", SearchWithSourceDocs(arg.raw, spec, engine))

NextSearch ==
    \/ CallSimpleSearchStream
    \/ CallSimpleSearch
    \/ CallSearchWithSourceStream
    \/ CallSearchWithSource
    \/ CallSimpleSearchDocs
    \/ CallSearchWithSourceDocs

SpecSearch == InitSearch /\ [][NextSearch]_vars

\* the raw input is of a supported type and, given as bytes, decodes
Decodable(raw) ==
    \/ raw.type \in MapTypes
    \/ raw.type \in ByteTypes /\ IsJSONObject(raw.data)

(* The search entry points on well-formed input: a lucene string, or a raw *)
(* query that decodes                                                      *)

InitSearchDecodable == InitSearch /\ (arg.mode = "source" => Decodable(arg.raw))

SpecSearchDecodable == InitSearchDecodable /\ [][NextSearch]_vars

(* The search entry points on options that ask for results: nil, or with  *)
(* Size # 0                                                               *)

InitSearchSized == InitSearch /\ (spec # <<>> => spec[1].Size # 0)

SpecSearchSized == InitSearchSized /\ [][NextSearch]_vars

(* The command line: RunPrepareApp, then RunQuery if it was accepted *)

InitCli ==
    /\ pc = "ready"
    /\ op = "none"
    /\ cli \in Invocations
    /\ out = NoOut
    /\ spec = <<>>
    /\ arg = NoArg
    /\ engine = NoEngine
    /\ search = NewSearch
    /\ engineLog = <<>>
    /\ ret = NoReturn

Prepare ==
    /\ pc = "ready"
    /\ out' = RunPrepareApp(cli)
    /\ pc' = IF out'.code = 0 THEN "prepared" ELSE "done"
    /\ op' = "RunPrepareApp"
    /\ UNCHANGED <<spec, arg, engine, engineLog, ret, search, cli>>

Query ==
    /\ pc = "prepared"
    /\ \E newErr \in BOOLEAN, searchErr \in BOOLEAN, formatErr \in BOOLEAN,
          res \in SeqsUpTo(Docs, MaxHits) :
            out' = RunQuery(cli, out, newErr, res, searchErr, formatErr)
    /\ Applied("RunQuery")
    /\ UNCHANGED <<spec, arg, engine, engineLog, ret, search, cli>>

NextCli == Prepare \/ Query

SpecCli == InitCli /\ [][NextCli]_vars

----------------------------------------------------------------------------
(* Properties of the search entry points (SpecSearch) *)

Done(names) == pc = "done" /\ op \in names

StreamOps == {"SimpleSearchStream", "SearchWithSourceStream"}

LuceneOps == {"SimpleSearchStream", "SimpleSearch", "SimpleSearchDocs"}

\* the entry points that know the zero-size error
CurrentOps ==
    {"SimpleSearchStream", "SimpleSearch", "SearchWithSourceStream",
     "SearchWithSource"}

ZeroSize == spec # <<>> /\ spec[1].Size = 0

Invoked(name) == \E i \in 1..Len(engineLog) : engineLog[i].op = name

Count(name) == Cardinality({i \in 1..Len(engineLog) : engineLog[i].op = name})

\* the call is ended by a check of its inputs, before the validation step
EndedOnInputs ==
    \/ op = "SimpleSearchStream" /\ (arg.q = "" \/ ZeroSize)
    \/ op = "SearchWithSourceStream" /\ arg.raw.type \notin ByteTypes \cup MapTypes

\* C1: with Size == 0 every search entry point (SimpleSearchStream and
\* SimpleSearch with a non-empty query, SearchWithSourceStream and
\* SearchWithSource with any raw input) returns the zero-size error and
\* makes no request to the engine (no validate, no execute, no Do).
C1_ZeroSizeNeverExecutes ==
    (Done(CurrentOps) /\ ZeroSize /\ (arg.mode = "lucene" => arg.q # ""))
        => (~ret.fatal /\ ret.err = "ErrZeroSize" /\ engineLog = <<>>)

\* C2: for the empty query string and any options, SimpleSearchStream and
\* SimpleSearch return ErrEmptySearch, no stream and no results, and make no
\* request to the engine; for a non-empty query string every request made
\* carries exactly the caller's string as its query-string expression.
C2_EmptyQueryRejected ==
    Done(LuceneOps) =>
        /\ arg.q = "" =>
              /\ ret.err = "ErrEmptySearch"
              /\ ret.stream = <<>>
              /\ ret.results = <<>>
              /\ engineLog = <<>>
        /\ arg.q # "" =>
              \A i \in 1..Len(engineLog) : engineLog[i].query = LuceneQuery(arg.q)

C2_Witness ==
    /\ Done({"SimpleSearch"})
    /\ arg.q = ""
    /\ ZeroSize
    /\ ~spec[1].QuerySkipValidate

\* what C3 says of validate and execute apart from when validate is invoked:
\* validate comes before execute, a validation error is returned with a nil
\* stream and without execute, and execute is invoked at most once
ValidateGuardsExecute ==
    /\ \A i, j \in 1..Len(engineLog) :
          (engineLog[i].op = "validate" /\ engineLog[j].op = "execute") => i < j
    /\ (Invoked("validate") /\ (engine.validateErr \/ engineLog[1].query.isNil)) =>
          /\ ret.err = "validate error"
          /\ ret.stream = <<>>
          /\ ~Invoked("execute")
    /\ Count("execute") <= 1
    /\ Count("validate") <= 1

\* C3 as stated: in SimpleSearchStream and SearchWithSourceStream validate
\* is invoked exactly when QuerySkipValidate is false, before execute; a
\* validation error is returned with a nil stream and execute is not
\* invoked; execute is invoked at most once per call.
C3_ValidateExactlyWhenNotSkipped ==
    Done(StreamOps) =>
        /\ Invoked("validate") <=> ~Deref(spec).QuerySkipValidate
        /\ ValidateGuardsExecute

\* C3 amended: validate is invoked exactly when QuerySkipValidate is false
\* and the call was not ended by a check of its inputs first (empty query or
\* zero Size in SimpleSearchStream, unsupported raw type in
\* SearchWithSourceStream); the rest as stated.
C3_ValidateWhenReached ==
    Done(StreamOps) =>
        /\ Invoked("validate") <=> (~Deref(spec).QuerySkipValidate /\ ~EndedOnInputs)
        /\ ValidateGuardsExecute

C3_Witness ==
    /\ Done({"SimpleSearchStream"})
    /\ engine.validateErr
    /\ Invoked("validate")
    /\ ret.err = "validate error"

\* C4: whenever decoding the raw input (json.RawMessage or []byte) fails,
\* SearchWithSourceStream returns a non-nil error and the search is never
\* executed, with QuerySkipValidate false or true.
C4_DecodeErrorReturned ==
    (Done({"SearchWithSourceStream"})
        /\ arg.raw.type \in ByteTypes /\ ~IsJSONObject(arg.raw.data))
        => (ret.err # "nil" /\ ~Invoked("execute"))

----------------------------------------------------------------------------
(* Properties of result extraction (SpecResult) *)

\* C5: with RawResult set, extractResult returns the RawResult (HitResult)
\* wrapping the whole hit and no error, whatever Fields is and whether or
\* not the hit has fields or a source document.
C5_RawResultWins ==
    (Done({"extractResult"}) /\ spec[1].RawResult)
        => (ret.err = "nil" /\ ret.result = HitResult(engine.hits[1]))

C5_Witness ==
    /\ Done({"extractResult"})
    /\ spec[1].RawResult
    /\ spec[1].Fields # <<>>
    /\ engine.hits[1].Fields # {}
    /\ ret.result.variant = "HitResult"

\* C6: with RawResult unset, extractResult returns FieldResult exactly when
\* options.Fields and the hit's field projection are both non-empty;
\* otherwise SourceResult if the hit has a source document; otherwise the
\* missing-document error and no Result.  A Result or an error is produced,
\* never both.
C6_FieldThenSourceThenError ==
    (Done({"extractResult"}) /\ ~spec[1].RawResult) =>
        LET h == engine.hits[1]
            fieldCase == spec[1].Fields # <<>> /\ h.Fields # {}
        IN /\ ret.result.variant = "FieldResult" <=> fieldCase
           /\ fieldCase => (ret.result = FieldResult(h.Fields) /\ ret.err = "nil")
           /\ (~fieldCase /\ h.Source # <<>>) =>
                 (ret.result = SourceResult(h.Source[1]) /\ ret.err = "nil")
           /\ (~fieldCase /\ h.Source = <<>>) =>
                 (ret.result = NoResult /\ ret.err = "nil document returned")
           /\ ret.err = "nil" <=> ret.result # NoResult

C6_Witness ==
    /\ Done({"extractResult"})
    /\ ~spec[1].RawResult
    /\ spec[1].Fields = <<>>
    /\ engine.hits[1].Fields # {}
    /\ ret.result.variant = "SourceResult"

\* the hits before the first one that cannot be extracted
RECURSIVE Extractable(_, _, _)
Extractable(hs, o, i) ==
    IF i > Len(hs) \/ extractResult(hs[i], o).err # "nil" THEN i - 1
    ELSE Extractable(hs, o, i + 1)

\* C9: consumeResults returns the results in the order of the hit list: one
\* Result per hit, the i-th being the extraction of the i-th hit, when every
\* hit extracts (an empty list giving an empty result and no error); when
\* extraction first fails at hit i, that error and the Results of the hits
\* before i.
C9_ResultsInHitOrder ==
    Done({"consumeResults"}) =>
        LET hs == engine.hits
            n == Extractable(hs, spec[1], 1)
        IN /\ Len(ret.results) = n
           /\ \A i \in 1..n : ret.results[i] = extractResult(hs[i], spec[1]).result
           /\ n = Len(hs) => ret.err = "nil"
           /\ n < Len(hs) => ret.err = extractResult(hs[n + 1], spec[1]).err
           /\ ret.err = "nil" <=> n = Len(hs)

C9_Witness ==
    /\ Done({"consumeResults"})
    /\ Len(engine.hits) = 2
    /\ Len(ret.results) = 1
    /\ ret.err # "nil"

----------------------------------------------------------------------------
(* Properties of SearchOptions.apply (SpecApply) *)

ApplyEffect ==
    Done({"apply"}) =>
        LET b == ret.before
            o == spec[1]
        IN /\ search.calls = b.calls
                \o (IF o.Size # 0 THEN <<"Size">> ELSE <<>>)
                \o (IF o.Index # "" THEN <<"Index">> ELSE <<>>)
                \o (IF o.Indices # <<>> THEN <<"Index">> ELSE <<>>)
                \o (IF o.SortTime # "nil" THEN <<"Sort">> ELSE <<>>)
           /\ search.size = IF o.Size # 0 THEN o.Size ELSE b.size
           /\ search.index = b.index
                \o (IF o.Index # "" THEN <<o.Index>> ELSE <<>>) \o o.Indices
           /\ Range(search.index) = Range(b.index)
                \cup (IF o.Index # "" THEN {o.Index} ELSE {}) \cup Range(o.Indices)
           /\ search.sort = b.sort
                \o (IF o.SortTime # "nil"
                    THEN << <<"@timestamp", o.SortTime = "asc">> >> ELSE <<>>)
           /\ search.query = b.query

\* C7: apply sets the size, then the index selection, then the sort
\* direction, each only if its field is set, leaving the builder's other
\* settings unchanged; with both Index and Indices set the builder's indices
\* are the union of both; the SearchOptions value is the same before and
\* after apply.
C7_ApplyInOrder == [](ApplyEffect) /\ [][spec' = spec]_vars

C7_Witness ==
    /\ Done({"apply"})
    /\ spec[1].Size # 0
    /\ spec[1].Index # ""
    /\ spec[1].Indices # <<>>
    /\ spec[1].Index # spec[1].Indices[1]
    /\ spec[1].SortTime = "asc"
    /\ ret.before.index # <<>>

----------------------------------------------------------------------------
(* Properties of the command line (SpecCli) *)

BothQueries == cli.file # "unset" /\ Len(cli.args) > 0

NoQueryGiven == cli.file = "unset" /\ Len(cli.args) = 0

BadEndpoint == cli.endpoint = "" \/ UrlParseFails(cli.endpoint)

\* C8 as stated: RunPrepareApp rejects with exit code 3 every invocation
\* that gives both a query file and positional arguments, or neither; for
\* every invocation it accepts RunQuery issues exactly one search,
\* SearchWithSource for a query file or SimpleSearch for arguments.
C8_ExactlyOneSearch ==
    /\ (op # "none" /\ (BothQueries \/ NoQueryGiven)) =>
          (op = "RunPrepareApp" /\ pc = "done" /\ out.code = 3)
    /\ Done({"RunQuery"}) =>
          /\ Len(out.searches) = 1
          /\ cli.file # "unset" => out.searches = <<"SearchWithSource">>
          /\ Len(cli.args) > 0 => out.searches = <<"SimpleSearch">>

\* C8 amended: RunPrepareApp rejects every invocation that gives both or
\* neither, with exit code 3, or 1 when the endpoint is empty or not a URL;
\* for every invocation it accepts RunQuery issues at most one search, never
\* both: SearchWithSource exactly when a query file is given, the client
\* was created and the file was opened and read; SimpleSearch exactly when
\* arguments are given, the client was created and the arguments joined by
\* spaces are not the empty string.
C8_AtMostOneSearch ==
    /\ (op # "none" /\ (BothQueries \/ NoQueryGiven)) =>
          /\ op = "RunPrepareApp" /\ pc = "done"
          /\ out.code = IF BadEndpoint THEN 1 ELSE 3
    /\ Done({"RunQuery"}) =>
          /\ Len(out.searches) <= 1
          /\ out.searches = <<"SearchWithSource">>
                <=> (cli.file = "ok" /\ ~out.newErr)
          /\ out.searches = <<"SimpleSearch">>
                <=> (Len(cli.args) > 0 /\ ~out.newErr
                     /\ \E i \in 1..Len(cli.args) :
                           cli.args[i] # <<>> \/ Len(cli.args) > 1)
          /\ cli.file # "unset" <=> Len(cli.args) = 0

C8_Witness ==
    /\ Done({"RunQuery"})
    /\ cli.file = "ok"
    /\ out.searches = <<"SearchWithSource">>

\* C10: in RunQuery, with the raw-json flag set, no query-fields value given
\* and a search that returned at least one result and no error, every
\* result is printed, one per line, in result order, and the formatter is
\* not run.
C10_RawJsonPrintsResults ==
    (Done({"RunQuery"}) /\ cli.rawJson /\ cli.queryFields = <<>>
        /\ out.err = "nil" /\ Len(out.results) > 0)
        => (out.printed = out.results /\ ~out.formatted)

====
